---- MODULE Spec2Model ----
(***************************************************************************)
(* A model of the chat-langchain service (main.py) and of its ingestion    *)
(* script (ingest.py).                                                     *)
(*                                                                         *)
(* Spec       : the HTTP service, one request in flight at a time; the     *)
(*              process-wide state (trace_url) survives from one request   *)
(*              to the next.                                               *)
(* SpecStream : transform_stream_for_client applied to arbitrary streams   *)
(*              of run-log operations.                                     *)
(* SpecIngest : ingest_docs run repeatedly over a changing reports folder. *)
(***************************************************************************)
EXTENDS Integers, Sequences, FiniteSets, TLC

VARIABLES
    trace_url,               \* main.py:251  the module global of chat_endpoint
    handler,                 \* the endpoint function serving the request
    pc,                      \* position of the handler / pipeline
    data,                    \* JSON body of the request
    response,                \* value returned by the handler
    calls,                   \* calls made on the langsmith client, in order
    i,                       \* loop variable of aget_trace_url
    attempts,                \* outcome of each client.read_run of the loop
    slept,                   \* seconds slept by the retry loop
    is_shared,               \* value returned by client.run_is_shared
    request,                 \* the ChatRequest of chat_endpoint
    converted_chat_history,  \* main.py:255
    chain,                   \* the retriever chain built by create_chain
    llm_calls,               \* language-model calls of the run, in order
    retriever_query,         \* what the retriever was invoked with
    docs,                    \* what the retriever returned
    context,                 \* format_docs(docs), the {context} of the prompt
    answer,                  \* the fragments the language model will stream
    ops,                     \* run-log operations produced so far
    out,                     \* messages yielded to the client so far
    reports,                 \* the chunks the reports folder loads into
    loaded,                  \* docs_from_chmc of the running or last pass
    pending,                 \* documents index() has not processed yet
    vectorstore,             \* the objects of the Weaviate index
    records,                 \* the rows of the record manager
    batch,                   \* number of the running or last pass
    stats,                   \* indexing_stats of the running or last pass
    ingest_pc                \* position of ingest_docs

traceVars == <<calls, i, attempts, slept, is_shared>>
chatVars == <<request, converted_chat_history, chain, llm_calls,
              retriever_query, docs, context, answer>>
streamVars == <<ops, out>>
ingestVars == <<reports, loaded, pending, vectorstore, records, batch, stats,
                ingest_pc>>

serviceVars == <<trace_url, handler, pc, data, response, traceVars,
                 chatVars, streamVars>>

vars == <<serviceVars, ingestVars>>

----------------------------------------------------------------------------
(* Values *)

None == "None"
Unset == "<unset>"
NoResponse == [kind |-> "none"]

BodyKeys == {"run_id", "feedback_id", "key", "score", "comment"}
BodyValues == {None, "x"}

\* JSON objects over BodyKeys: a key may be absent, null or a value.
Bodies == UNION {[ks -> BodyValues] : ks \in SUBSET BodyKeys}

\* dict.get(k, default)
Get(d, k, default) == IF k \in DOMAIN d THEN d[k] ELSE default

Count(s, fn) == Cardinality({n \in 1..Len(s) : s[n].fn = fn})

----------------------------------------------------------------------------
(* POST /feedback, PATCH /feedback, GET /ping *)

\* A handler that validates the other endpoint's field.
send_feedback_checks_feedback_id(d) == Get(d, "feedback_id", None) = None

send_feedback_rejects(d) == Get(d, "run_id", None) = None

update_feedback_rejects(d) == Get(d, "feedback_id", None) = None

get_trace_rejects(d) == Get(d, "run_id", None) = None

\* vals = {**data, "key": key}
FeedbackVals(d) ==
    [k \in DOMAIN d \cup {"key"} |->
        IF k = "key" THEN Get(d, "key", "user_score") ELSE d[k]]

send_feedback(d) ==
    /\ handler = "none"
    /\ handler' = "send_feedback"
    /\ data' = d
    /\ IF send_feedback_rejects(d)
       THEN /\ response' = [kind |-> "dict",
                            result |-> "No LangSmith run ID provided",
                            code |-> 400]
            /\ calls' = calls
       ELSE /\ calls' = Append(calls, [fn |-> "create_feedback",
                                       args |-> FeedbackVals(d)])
            /\ response' = [kind |-> "dict",
                            result |-> "posted feedback successfully",
                            code |-> 200]
    /\ pc' = "returned"
    /\ UNCHANGED <<trace_url, i, attempts, slept, is_shared, chatVars,
                   streamVars, ingestVars>>

update_feedback(d) ==
    /\ handler = "none"
    /\ handler' = "update_feedback"
    /\ data' = d
    /\ IF update_feedback_rejects(d)
       THEN /\ response' = [kind |-> "dict",
                            result |-> "No feedback ID provided",
                            code |-> 400]
            /\ calls' = calls
       ELSE /\ calls' = Append(calls,
                   [fn |-> "update_feedback",
                    args |-> [feedback_id |-> d["feedback_id"],
                              score |-> Get(d, "score", None),
                              comment |-> Get(d, "comment", None)]])
            /\ response' = [kind |-> "dict",
                            result |-> "patched feedback successfully",
                            code |-> 200]
    /\ pc' = "returned"
    /\ UNCHANGED <<trace_url, i, attempts, slept, is_shared, chatVars,
                   streamVars, ingestVars>>

pong ==
    /\ handler = "none"
    /\ handler' = "pong"
    /\ response' = [kind |-> "dict", ping |-> "pong!"]
    /\ pc' = "returned"
    /\ UNCHANGED <<trace_url, data, traceVars, chatVars, streamVars,
                   ingestVars>>

----------------------------------------------------------------------------
(* POST /get_trace and aget_trace_url *)

\* A loop that runs once more.
RetryAttemptsOffByOne == 5 + 1

\* for i in range(5)
RetryAttempts == 5

ReadOutcomes == {"ok", "LangSmithError", "OtherError"}

\* await asyncio.sleep(1**i)
SleepSeconds(idx) == 1 ^ idx

\* A loop body without its break.
AfterReadRunNoBreak(outcome) ==
    CASE outcome = "ok" -> "sleep"
      [] outcome = "LangSmithError" -> "sleep"
      [] OTHER -> "raised"

\* Where the loop body goes after one client.read_run: break on success,
\* the handler on LangSmithError, propagation of anything else.
AfterReadRun(outcome) ==
    CASE outcome = "ok" -> "run_is_shared"
      [] outcome = "LangSmithError" -> "sleep"
      [] OTHER -> "raised"

\* End of one iteration: the next value of range(5), or the end of the loop.
AfterSleep(idx) ==
    IF idx + 1 < RetryAttempts THEN "read_run" ELSE "run_is_shared"

\* if await run_is_shared: return read_run_shared_link; return share_run
AfterRunIsShared(shared) ==
    IF shared THEN "read_run_shared_link" ELSE "share_run"

get_trace(d) ==
    /\ handler = "none"
    /\ handler' = "get_trace"
    /\ data' = d
    /\ IF get_trace_rejects(d)
       THEN /\ response' = [kind |-> "dict",
                            result |-> "No LangSmith run ID provided",
                            code |-> 400]
            /\ pc' = "returned"
       ELSE /\ response' = response
            /\ pc' = IF 0 < RetryAttempts THEN "read_run" ELSE "run_is_shared"
    /\ i' = 0
    /\ UNCHANGED <<trace_url, calls, attempts, slept, is_shared, chatVars,
                   streamVars, ingestVars>>

read_run(outcome) ==
    /\ handler = "get_trace"
    /\ pc = "read_run"
    /\ calls' = Append(calls, [fn |-> "read_run", args |-> data["run_id"]])
    /\ attempts' = Append(attempts, outcome)
    /\ pc' = AfterReadRun(outcome)
    /\ UNCHANGED <<trace_url, handler, data, response, i, slept, is_shared,
                   chatVars, streamVars, ingestVars>>

sleep ==
    /\ handler = "get_trace"
    /\ pc = "sleep"
    /\ slept' = slept + SleepSeconds(i)
    /\ pc' = AfterSleep(i)
    /\ i' = i + 1
    /\ UNCHANGED <<trace_url, handler, data, response, calls, attempts,
                   is_shared, chatVars, streamVars, ingestVars>>

run_is_shared(shared) ==
    /\ handler = "get_trace"
    /\ pc = "run_is_shared"
    /\ calls' = Append(calls, [fn |-> "run_is_shared", args |-> data["run_id"]])
    /\ is_shared' = shared
    /\ pc' = AfterRunIsShared(shared)
    /\ UNCHANGED <<trace_url, handler, data, response, i, attempts, slept,
                   chatVars, streamVars, ingestVars>>

read_run_shared_link ==
    /\ handler = "get_trace"
    /\ pc = "read_run_shared_link"
    /\ calls' = Append(calls, [fn |-> "read_run_shared_link",
                               args |-> data["run_id"]])
    /\ response' = [kind |-> "str", url |-> "existing-link"]
    /\ pc' = "returned"
    /\ UNCHANGED <<trace_url, handler, data, i, attempts, slept, is_shared,
                   chatVars, streamVars, ingestVars>>

share_run ==
    /\ handler = "get_trace"
    /\ pc = "share_run"
    /\ calls' = Append(calls, [fn |-> "share_run", args |-> data["run_id"]])
    /\ response' = [kind |-> "str", url |-> "new-link"]
    /\ pc' = "returned"
    /\ UNCHANGED <<trace_url, handler, data, i, attempts, slept, is_shared,
                   chatVars, streamVars, ingestVars>>

----------------------------------------------------------------------------
(* Retrieved documents, reports metadata *)

\* doc.metadata["file"] = doc.metadata["source"];
\* doc.metadata["source"] =
\*     doc.metadata["file"] + "_" + str(doc.metadata["page"])
SourceId(file, page) == file \o "_" \o ToString(page)

\* A chunk as ingest_docs stores it and as the retriever returns it.
Document(file, page, content) ==
    [page_content |-> content,
     metadata |-> [source |-> SourceId(file, page), page |-> page,
                   file |-> file]]

\* A stored object whose file attribute is empty.
LegacyDocument ==
    [page_content |-> "c0", metadata |-> [source |-> "legacy", page |-> 0]]

\* The objects of the index the retriever searches: two chunks of one page,
\* a chunk of another page, a chunk of a report reports_metadata.json does
\* not list, and an object without a file.
StoredDocs ==
    { Document("reports/a.pdf", 0, "c1"),
      Document("reports/a.pdf", 0, "c2"),
      Document("reports/a.pdf", 1, "c1"),
      Document("reports/x.pdf", 0, "c1"),
      LegacyDocument }

\* metadata_dict = {item["file"]: item for item in data_list}
metadata_dict ==
    [f \in {"a.pdf"} |->
        [file |-> "a.pdf", name |-> "Report A", author |-> "CMHC"]]

remove_prefix(s, prefix) ==
    IF Len(s) >= Len(prefix) /\ SubSeq(s, 1, Len(prefix)) = prefix
    THEN SubSeq(s, Len(prefix) + 1, Len(s))
    ELSE s

SeqsUpTo(S, n) == UNION {[1..k -> S] : k \in 0..n}

----------------------------------------------------------------------------
(* transform_stream_for_client *)

FinalOutputOp(ds) ==
    [path |-> "/logs/0/final_output", op |-> "add", value |-> ds]
TokOp(t) == [path |-> "/streamed_output/-", op |-> "add", value |-> t]
RunIdOp(id) == [path |-> "", op |-> "replace", value |-> id]
OtherOp == [path |-> "/logs/0", op |-> "add", value |-> "FindDocs"]

\* doc.metadata.get("file") is truthy
HasFile(doc) == "file" \in DOMAIN doc.metadata /\ doc.metadata.file # ""

\* A condition that forgets seen_sources.
IsNewSourceNoDedup(doc, seen_sources) == HasFile(doc)

\* if current_source not in seen_sources and doc.metadata.get("file")
IsNewSource(doc, seen_sources) ==
    doc.metadata.source \notin seen_sources /\ HasFile(doc)

\* metadata_dict[remove_prefix(doc.metadata["file"], prefix="reports/")]
\* raises KeyError when the key is not in the table.
LookupRaises(doc) ==
    remove_prefix(doc.metadata.file, "reports/") \notin DOMAIN metadata_dict

SourceInfo(doc) ==
    LET item == metadata_dict[remove_prefix(doc.metadata.file, "reports/")]
    IN  [source |-> doc.metadata.source,
         file |-> doc.metadata.file,
         name |-> Get(item, "name", None),
         author |-> Get(item, "author", None),
         date_published |-> Get(item, "date_published", None)]

\* The loop over op["value"]["output"], from document n on:
\* [raised, all_sources].
RECURSIVE CollectSources(_, _, _, _)
CollectSources(ds, n, seen_sources, all_sources) ==
    IF n > Len(ds) THEN [raised |-> FALSE, all_sources |-> all_sources]
    ELSE IF IsNewSource(ds[n], seen_sources)
         THEN IF LookupRaises(ds[n])
              THEN [raised |-> TRUE, all_sources |-> all_sources]
              ELSE CollectSources(ds, n + 1,
                       seen_sources \cup {ds[n].metadata.source},
                       Append(all_sources, SourceInfo(ds[n])))
         ELSE CollectSources(ds, n + 1, seen_sources, all_sources)

\* A generator that yields the sources message unconditionally.
YieldsSourcesAlways(all_sources) == TRUE

\* if all_sources: yield {"sources": all_sources}
YieldsSources(all_sources) == all_sources # << >>

\* What the generator does with one operation: the messages it yields and
\* whether an exception leaves it.
TransformOp(o) ==
    IF o.path = "/logs/0/final_output"
    THEN LET r == CollectSources(o.value, 1, {}, << >>)
         IN  IF r.raised THEN [raised |-> TRUE, yield |-> << >>]
             ELSE [raised |-> FALSE,
                   yield |-> IF YieldsSources(r.all_sources)
                             THEN <<[kind |-> "sources",
                                     sources |-> r.all_sources]>>
                             ELSE << >>]
    ELSE IF o.path = "/streamed_output/-"
    THEN [raised |-> FALSE, yield |-> <<[kind |-> "tok", tok |-> o.value]>>]
    ELSE IF o.path = "" /\ o.op = "replace"
    THEN [raised |-> FALSE,
          yield |-> <<[kind |-> "run_id", run_id |-> o.value]>>]
    ELSE [raised |-> FALSE, yield |-> << >>]

\* One operation leaves the run-log stream and goes through the generator;
\* an exception ends the response, else the pipeline goes on to pcNext.
StreamOp(o, pcNext) ==
    /\ ops' = Append(ops, o)
    /\ out' = out \o TransformOp(o).yield
    /\ pc' = IF TransformOp(o).raised THEN "ERROR" ELSE pcNext

----------------------------------------------------------------------------
(* POST /chat: chat_endpoint and the chain of create_chain *)

MaxHist == 2
MaxRetrieved == 1
MaxToks == 1

\* search_kwargs=dict(k=8)
K == 8

Questions == {"q1", "q2"}
Toks == {"a", "b"}

\* One entry of ChatRequest.history, a Dict[str, str].
HistoryEntries == UNION {[ks -> {"text"}] : ks \in SUBSET {"human", "ai"}}

Histories == SeqsUpTo(HistoryEntries, MaxHist)

\* A ChatRequest; the optional history may be missing (None).
ChatRequests ==
    [message : Questions, history : Histories] \cup [message : Questions]

\* chat_history = request.history or []
HistoryOrEmpty(req) ==
    IF "history" \in DOMAIN req THEN req.history ELSE << >>

\* A loop body that appends the ai message first.
ConvertEntryAiFirst(message) ==
    (IF Get(message, "ai", None) # None
     THEN <<[type |-> "ai", content |-> message["ai"]]>> ELSE << >>)
    \o
    (IF Get(message, "human", None) # None
     THEN <<[type |-> "human", content |-> message["human"]]>> ELSE << >>)

\* The messages one entry contributes to converted_chat_history.
ConvertEntry(message) ==
    (IF Get(message, "human", None) # None
     THEN <<[type |-> "human", content |-> message["human"]]>> ELSE << >>)
    \o
    (IF Get(message, "ai", None) # None
     THEN <<[type |-> "ai", content |-> message["ai"]]>> ELSE << >>)

RECURSIVE ConvertHistory(_)
ConvertHistory(h) ==
    IF h = << >> THEN << >>
    ELSE ConvertEntry(Head(h)) \o ConvertHistory(Tail(h))

\* bool(converted_chat_history)
UseChatHistory(converted) == converted # << >>

\* A chain factory that ignores use_chat_history.
AlwaysCondense(use_chat_history) == "conversation_chain"

create_retriever_chain(use_chat_history) ==
    IF ~use_chat_history THEN "initial_chain" ELSE "conversation_chain"

RECURSIVE JoinDocs(_, _)
JoinDocs(ds, n) ==
    IF n > Len(ds) THEN ""
    ELSE (IF n > 1 THEN "\n" ELSE "")
         \o "<doc id='" \o ToString(n - 1) \o "'>"
         \o ds[n].page_content \o "</doc>"
         \o JoinDocs(ds, n + 1)

format_docs(ds) == JoinDocs(ds, 1)

\* "If there is nothing in the context relevant to the question at hand,
\* just say "Hmm, I'm not sure.""
AbstentionToks == <<"Hmm, ", "I'm not sure.">>

\* What the language model may stream for a given context block.
Answers(ctx) ==
    IF ctx = "" THEN {AbstentionToks}
    ELSE {AbstentionToks} \cup (SeqsUpTo(Toks, MaxToks) \ {<< >>})

chat_endpoint(req) ==
    /\ handler = "none"
    /\ handler' = "chat_endpoint"
    /\ trace_url' = None
    /\ request' = req
    /\ converted_chat_history' = ConvertHistory(HistoryOrEmpty(req))
    /\ chain' = create_retriever_chain(
                    UseChatHistory(ConvertHistory(HistoryOrEmpty(req))))
    /\ pc' = "RECEIVED"
    /\ UNCHANGED <<data, response, traceVars, llm_calls, retriever_query,
                   docs, context, answer, streamVars, ingestVars>>

\* astream_log opens the run: the first patch replaces the root and
\* carries the run id.
run_start ==
    /\ handler = "chat_endpoint"
    /\ pc = "RECEIVED"
    /\ StreamOp(RunIdOp("run-1"),
                IF chain = "conversation_chain" THEN "REWRITING"
                ELSE "RETRIEVING")
    /\ UNCHANGED <<trace_url, handler, data, response, traceVars, chatVars,
                   ingestVars>>

\* condense_question_chain: prompt | llm | StrOutputParser
condense_question(standalone) ==
    /\ handler = "chat_endpoint"
    /\ pc = "REWRITING"
    /\ llm_calls' = Append(llm_calls, "CondenseQuestion")
    /\ retriever_query' = standalone
    /\ pc' = "RETRIEVING"
    /\ UNCHANGED <<trace_url, handler, data, response, traceVars, request,
                   converted_chat_history, chain, docs, context, answer,
                   streamVars, ingestVars>>

\* itemgetter("question") | retriever, or condense_question_chain | retriever;
\* then format_docs, and the FindDocs output enters the run log.
retrieve(ds) ==
    /\ handler = "chat_endpoint"
    /\ pc = "RETRIEVING"
    /\ Len(ds) <= K
    /\ retriever_query' = IF chain = "initial_chain" THEN request.message
                          ELSE retriever_query
    /\ docs' = ds
    /\ context' = format_docs(ds)
    /\ StreamOp(FinalOutputOp(ds), "SYNTHESIZING")
    /\ UNCHANGED <<trace_url, handler, data, response, traceVars, request,
                   converted_chat_history, chain, llm_calls, answer,
                   ingestVars>>

\* response_synthesizer: prompt | llm | StrOutputParser
synthesize(toks) ==
    /\ handler = "chat_endpoint"
    /\ pc = "SYNTHESIZING"
    /\ toks \in Answers(context)
    /\ llm_calls' = Append(llm_calls, "GenerateResponse")
    /\ answer' = toks
    /\ pc' = "STREAMING"
    /\ UNCHANGED <<trace_url, handler, data, response, traceVars, request,
                   converted_chat_history, chain, retriever_query, docs,
                   context, streamVars, ingestVars>>

\* The next fragment of the answer is streamed.
stream_token ==
    /\ handler = "chat_endpoint"
    /\ pc = "STREAMING"
    /\ answer # << >>
    /\ StreamOp(TokOp(Head(answer)), "STREAMING")
    /\ answer' = Tail(answer)
    /\ UNCHANGED <<trace_url, handler, data, response, traceVars, request,
                   converted_chat_history, chain, llm_calls, retriever_query,
                   docs, context, ingestVars>>

\* The run-log stream is exhausted and the response ends.
stream_end ==
    /\ handler = "chat_endpoint"
    /\ pc = "STREAMING"
    /\ answer = << >>
    /\ pc' = "DONE"
    /\ UNCHANGED <<trace_url, handler, data, response, traceVars, chatVars,
                   streamVars, ingestVars>>

----------------------------------------------------------------------------
(* transform_stream_for_client over any stream of run-log operations *)

MaxDocs == 3
MaxOps == 2

RunIds == {"run-1"}

\* The operations a run-log stream can carry.
StreamOps ==
    {FinalOutputOp(ds) : ds \in SeqsUpTo(StoredDocs, MaxDocs)}
        \cup {TokOp(t) : t \in Toks}
        \cup {RunIdOp(id) : id \in RunIds}
        \cup {OtherOp}

\* include_names=["FindDocs"]: one log entry, so one final output per run.
HasFinalOutput(os) ==
    \E n \in 1..Len(os) : os[n].path = "/logs/0/final_output"

\* The stream carries one more operation.  The generator handles it as it
\* arrives; once an exception has left the generator nothing reads the
\* stream any more and the operation is lost.
stream_op(o) ==
    /\ handler = "transform_stream_for_client"
    /\ pc \in {"STREAMING", "ERROR"}
    /\ Len(ops) < MaxOps
    /\ o.path = "/logs/0/final_output" => ~HasFinalOutput(ops)
    /\ IF pc = "ERROR"
       THEN /\ ops' = Append(ops, o)
            /\ UNCHANGED <<out, pc>>
       ELSE StreamOp(o, "STREAMING")
    /\ UNCHANGED <<trace_url, handler, data, response, traceVars, chatVars,
                   ingestVars>>

\* The stream ends and with it the response.
stream_close ==
    /\ handler = "transform_stream_for_client"
    /\ pc = "STREAMING"
    /\ pc' = "DONE"
    /\ UNCHANGED <<trace_url, handler, data, response, traceVars, chatVars,
                   streamVars, ingestVars>>

----------------------------------------------------------------------------
(* ingest.py: load_chmc_docs, ingest_docs and the indexing pass *)

MaxChunks == 3
MaxPasses == 2

\* What PyPDFLoader('reports/' + file).load_and_split() yields for one chunk.
LoadedChunk(file, page, content) ==
    [page_content |-> content,
     metadata |-> [source |-> "reports/" \o file, page |-> page]]

\* The chunks the reports folder can hold, in loading order: two pages of
\* a.pdf, and of b.pdf a first page in two versions and a second page.
ChunkUniverse ==
    << LoadedChunk("a.pdf", 0, "c1"),
       LoadedChunk("a.pdf", 1, "c1"),
       LoadedChunk("b.pdf", 0, "c1"),
       LoadedChunk("b.pdf", 0, "c2"),
       LoadedChunk("b.pdf", 1, "c1") >>

RECURSIVE PickChunks(_, _)
PickChunks(S, n) ==
    IF n > Len(ChunkUniverse) THEN << >>
    ELSE (IF n \in S THEN <<ChunkUniverse[n]>> ELSE << >>)
         \o PickChunks(S, n + 1)

\* The states of the reports folder, as the documents it loads into.
Folders ==
    {PickChunks(S, 1) : S \in {T \in SUBSET (1..Len(ChunkUniverse)) :
                                   Cardinality(T) <= MaxChunks}}

load_chmc_docs == reports

\* for doc in docs_from_chmc: file = source; source = file + "_" + str(page)
AssignSourceId(doc) ==
    Document(doc.metadata.source, doc.metadata.page, doc.page_content)

RECURSIVE AssignSourceIds(_)
AssignSourceIds(ds) ==
    IF ds = << >> THEN << >>
    ELSE <<AssignSourceId(Head(ds))>> \o AssignSourceIds(Tail(ds))

\* A call of index() that never deletes.
CleanupIncremental == "incremental"

\* index(..., cleanup="full", source_id_key="source")
CleanupMode == "full"
SourceIdOf(doc) == doc.metadata.source

\* The content hash of the record store.
Hash(content) == "sha1:" \o content

NoStats == [added |-> 0, updated |-> 0, skipped |-> 0, deleted |-> 0]

\* The reports folder changes between two passes.
edit_reports(folder) ==
    /\ ingest_pc = "idle"
    /\ batch < MaxPasses
    /\ folder # reports
    /\ reports' = folder
    /\ UNCHANGED <<serviceVars, loaded, pending, vectorstore, records, batch,
                   stats, ingest_pc>>

\* ingest_docs up to the call of index().
ingest_docs ==
    /\ ingest_pc = "idle"
    /\ batch < MaxPasses
    /\ loaded' = AssignSourceIds(load_chmc_docs)
    /\ pending' = AssignSourceIds(load_chmc_docs)
    /\ batch' = batch + 1
    /\ stats' = NoStats
    /\ ingest_pc' = "indexing"
    /\ UNCHANGED <<serviceVars, reports, vectorstore, records>>

\* index() handles the next document: insert, update as delete-then-insert,
\* or skip.
index_doc ==
    /\ ingest_pc = "indexing"
    /\ pending # << >>
    /\ LET doc == Head(pending)
           sid == SourceIdOf(doc)
           h == Hash(doc.page_content)
           prior == {r \in records : r.source_id = sid}
           row == [source_id |-> sid, hash |-> h, batch |-> batch]
       IN  IF prior = {}
           THEN /\ vectorstore' = vectorstore \cup {doc}
                /\ records' = records \cup {row}
                /\ stats' = [stats EXCEPT !.added = @ + 1]
           ELSE IF \E r \in prior : r.hash # h
           THEN /\ vectorstore' =
                      {v \in vectorstore : SourceIdOf(v) # sid} \cup {doc}
                /\ records' = (records \ prior) \cup {row}
                /\ stats' = [stats EXCEPT !.updated = @ + 1]
           ELSE /\ vectorstore' = vectorstore
                /\ records' = (records \ prior) \cup {row}
                /\ stats' = [stats EXCEPT !.skipped = @ + 1]
    /\ pending' = Tail(pending)
    /\ UNCHANGED <<serviceVars, reports, loaded, batch, ingest_pc>>

\* The end of index(): in full mode every record the pass did not touch
\* is deleted from both stores.
cleanup ==
    /\ ingest_pc = "indexing"
    /\ pending = << >>
    /\ LET stale == IF CleanupMode = "full"
                    THEN {r \in records : r.batch # batch} ELSE {}
       IN  /\ records' = records \ stale
           /\ vectorstore' =
                 {v \in vectorstore :
                     \A r \in stale : r.source_id # SourceIdOf(v)}
           /\ stats' = [stats EXCEPT !.deleted = @ + Cardinality(stale)]
    /\ ingest_pc' = "idle"
    /\ UNCHANGED <<serviceVars, reports, loaded, pending, batch>>

----------------------------------------------------------------------------
(* The service *)

\* The request is over (a value was returned or an exception left the
\* handler); the server takes the next one.  Only module globals survive.
NextRequest ==
    /\ pc \in {"returned", "raised", "DONE", "ERROR"}
    /\ handler' = "none"
    /\ pc' = "idle"
    /\ data' = << >>
    /\ response' = NoResponse
    /\ calls' = << >>
    /\ i' = 0
    /\ attempts' = << >>
    /\ slept' = 0
    /\ is_shared' = FALSE
    /\ request' = << >>
    /\ converted_chat_history' = << >>
    /\ chain' = "none"
    /\ llm_calls' = << >>
    /\ retriever_query' = None
    /\ docs' = << >>
    /\ context' = ""
    /\ answer' = << >>
    /\ ops' = << >>
    /\ out' = << >>
    /\ UNCHANGED <<trace_url, ingestVars>>

InitTrace ==
    /\ data = << >>
    /\ response = NoResponse
    /\ calls = << >>
    /\ i = 0
    /\ attempts = << >>
    /\ slept = 0
    /\ is_shared = FALSE

InitChat ==
    /\ request = << >>
    /\ converted_chat_history = << >>
    /\ chain = "none"
    /\ llm_calls = << >>
    /\ retriever_query = None
    /\ docs = << >>
    /\ context = ""
    /\ answer = << >>
    /\ ops = << >>
    /\ out = << >>

\* ingest.py has not run: both stores are empty.
InitIngestVars ==
    /\ reports = << >>
    /\ loaded = << >>
    /\ pending = << >>
    /\ vectorstore = {}
    /\ records = {}
    /\ batch = 0
    /\ stats = NoStats
    /\ ingest_pc = "idle"

\* The module has been imported: trace_url does not exist yet.
Init ==
    /\ trace_url = Unset
    /\ handler = "none"
    /\ pc = "idle"
    /\ InitTrace
    /\ InitChat
    /\ InitIngestVars

Next ==
    \/ \E d \in Bodies : send_feedback(d)
    \/ \E d \in Bodies : update_feedback(d)
    \/ pong
    \/ \E d \in Bodies : get_trace(d)
    \/ \E o \in ReadOutcomes : read_run(o)
    \/ sleep
    \/ \E b \in BOOLEAN : run_is_shared(b)
    \/ read_run_shared_link
    \/ share_run
    \/ \E req \in ChatRequests : chat_endpoint(req)
    \/ run_start
    \/ \E q \in Questions : condense_question(q)
    \/ \E ds \in SeqsUpTo(StoredDocs, MaxRetrieved) : retrieve(ds)
    \/ \E toks \in SeqsUpTo(Toks, MaxToks) \cup {AbstentionToks} :
          synthesize(toks)
    \/ stream_token
    \/ stream_end
    \/ NextRequest

Spec == Init /\ [][Next]_vars

\* A response is being streamed.
InitStream ==
    /\ trace_url = None
    /\ handler = "transform_stream_for_client"
    /\ pc = "STREAMING"
    /\ InitTrace
    /\ InitChat
    /\ InitIngestVars

NextStream ==
    \/ \E o \in StreamOps : stream_op(o)
    \/ stream_close

SpecStream == InitStream /\ [][NextStream]_vars

\* The ingestion script, run again and again on one folder.
InitIngest ==
    /\ trace_url = Unset
    /\ handler = "none"
    /\ pc = "idle"
    /\ InitTrace
    /\ InitChat
    /\ InitIngestVars

NextIngest ==
    \/ \E folder \in Folders : edit_reports(folder)
    \/ ingest_docs
    \/ index_doc
    \/ cleanup

SpecIngest == InitIngest /\ [][NextIngest]_vars

----------------------------------------------------------------------------
(* Properties *)

InGetTrace == handler = "get_trace" /\ Get(data, "run_id", None) # None

AllTransient == \A n \in 1..Len(attempts) : attempts[n] = "LangSmithError"

InFallback ==
    pc \in {"run_is_shared", "read_run_shared_link", "share_run", "returned"}

LinkCalls == Count(calls, "read_run_shared_link") + Count(calls, "share_run")

\* C1: when every read of the run fails with LangSmithError, at most 5
\* reads are made, no exception leaves the loop, the fallback stage is
\* entered after exactly 5 reads, and it returns a link.
C1_TraceRetryBound ==
    (InGetTrace /\ AllTransient) =>
        /\ Len(attempts) <= 5
        /\ Count(calls, "read_run") = Len(attempts)
        /\ pc # "raised"
        /\ InFallback => Len(attempts) = 5
        /\ Len(attempts) = 5 => pc = "sleep" \/ InFallback
        /\ pc = "returned" =>
              /\ response.kind = "str"
              /\ Count(calls, "run_is_shared") = 1
              /\ LinkCalls = 1

C1_Witness ==
    /\ InGetTrace
    /\ pc = "returned"
    /\ attempts = [n \in 1..5 |-> "LangSmithError"]
    /\ response.kind = "str"

RequiredField ==
    CASE handler = "send_feedback" -> "run_id"
      [] handler = "update_feedback" -> "feedback_id"
      [] handler = "get_trace" -> "run_id"

\* C2: POST /feedback without run_id, PATCH /feedback without feedback_id
\* and POST /get_trace without run_id return {result, code: 400} and make
\* no call on the client; with the field present the handler contacts the
\* client before it ends.
C2_MissingFieldEndpoints ==
    handler \in {"send_feedback", "update_feedback", "get_trace"} =>
        IF Get(data, RequiredField, None) = None
        THEN /\ calls = << >>
             /\ pc = "returned"
             /\ response.kind = "dict"
             /\ DOMAIN response = {"kind", "result", "code"}
             /\ response.code = 400
        ELSE pc \in {"returned", "raised"} =>
                /\ calls # << >>
                /\ response.kind = "dict" => response.code # 400

C2_Witness ==
    /\ handler = "send_feedback"
    /\ DOMAIN data = {"feedback_id", "score"}
    /\ response.kind = "dict"
    /\ response.code = 400
    /\ calls = << >>

OutToks == LET ms == SelectSeq(out, LAMBDA m : m.kind = "tok")
           IN  [n \in 1..Len(ms) |-> ms[n].tok]

OpToks == LET os == SelectSeq(ops, LAMBDA o : o.path = "/streamed_output/-")
          IN  [n \in 1..Len(os) |-> os[n].value]

SourcesMsgs == SelectSeq(out, LAMBDA m : m.kind = "sources")

FinalOutputs == SelectSeq(ops, LAMBDA o : o.path = "/logs/0/final_output")

FirstIndex(ds, src) ==
    CHOOSE n \in 1..Len(ds) :
        /\ ds[n].metadata.source = src
        /\ \A k \in 1..(n - 1) : ds[k].metadata.source # src

\* C3: the sources list has at most one entry per source value, its
\* entries follow the order in which their sources first occur among the
\* retrieved documents, and a source that comes with a file has exactly
\* one entry however many chunks share it.
C3_CitationDedup ==
    \A m \in 1..Len(SourcesMsgs) :
        LET entries == SourcesMsgs[m].sources
            ds == FinalOutputs[1].value
        IN  /\ Len(FinalOutputs) = 1
            /\ \A k \in 1..Len(entries) :
                  \E n \in 1..Len(ds) :
                      ds[n].metadata.source = entries[k].source
            /\ \A k, l \in 1..Len(entries) :
                  k < l =>
                     /\ entries[k].source # entries[l].source
                     /\ FirstIndex(ds, entries[k].source)
                            < FirstIndex(ds, entries[l].source)
            /\ \A n \in 1..Len(ds) :
                  "file" \in DOMAIN ds[n].metadata =>
                      Cardinality({k \in 1..Len(entries) :
                          entries[k].source = ds[n].metadata.source}) = 1

C3_Witness ==
    /\ Len(SourcesMsgs) = 1
    /\ Len(SourcesMsgs[1].sources) = 2
    /\ Len(FinalOutputs[1].value) = 3
    /\ FinalOutputs[1].value[1].metadata.source
           = FinalOutputs[1].value[2].metadata.source

EmptyHistory ==
    /\ handler = "chat_endpoint"
    /\ "history" \in DOMAIN request => request.history = << >>

\* C4: a /chat request with an empty history never enters REWRITING, makes
\* no CondenseQuestion call, and its retriever is invoked with the request
\* message itself; a run that made the CondenseQuestion call has a history.
C4_EmptyHistoryIdentity ==
    /\ EmptyHistory =>
          /\ pc # "REWRITING"
          /\ \A n \in 1..Len(llm_calls) : llm_calls[n] # "CondenseQuestion"
          /\ pc = "RECEIVED" => ops = << >>
          /\ HasFinalOutput(ops) => retriever_query = request.message
    /\ (\E n \in 1..Len(llm_calls) : llm_calls[n] = "CondenseQuestion") =>
          /\ "history" \in DOMAIN request
          /\ request.history # << >>

C4_Witness ==
    /\ handler = "chat_endpoint"
    /\ "history" \in DOMAIN request
    /\ request.history = << >>
    /\ pc = "DONE"
    /\ retriever_query = request.message
    /\ llm_calls = <<"GenerateResponse">>

UnresolvedFile(doc) ==
    /\ "file" \in DOMAIN doc.metadata
    /\ doc.metadata.file \notin {"reports/" \o f : f \in DOMAIN metadata_dict}

\* C5: a retrieved document whose file is not a key of the metadata table
\* does not end the stream: no exception leaves the generator.
C5_MissingMetadataRecoverable ==
    \A n \in 1..Len(FinalOutputs) :
        (\E k \in 1..Len(FinalOutputs[n].value) :
            UnresolvedFile(FinalOutputs[n].value[k]))
        => pc # "ERROR"

Completed == ingest_pc = "idle" /\ batch > 0

\* C6: under one sourceId the vector store never holds two vectors, and
\* every sourceId is file + "_" + page; after a completed pass every
\* sourceId of the pass has exactly one record and one vector, the vector
\* is a chunk of this pass (nothing removed or outdated survives), every
\* record carries the hash of its vector, and a pass whose chunks have
\* distinct sourceIds leaves exactly its chunks in the store.
C6_Reconciliation ==
    /\ \A v1, v2 \in vectorstore :
          v1.metadata.source = v2.metadata.source => v1 = v2
    /\ \A v \in vectorstore :
          v.metadata.source
              = v.metadata.file \o "_" \o ToString(v.metadata.page)
    /\ Completed =>
          /\ \A n \in 1..Len(loaded) :
                LET sid == loaded[n].metadata.source
                IN  /\ Cardinality({r \in records : r.source_id = sid}) = 1
                    /\ Cardinality({v \in vectorstore :
                           v.metadata.source = sid}) = 1
          /\ \A v \in vectorstore : \E n \in 1..Len(loaded) : loaded[n] = v
          /\ \A r \in records :
                \E v \in vectorstore :
                    /\ v.metadata.source = r.source_id
                    /\ r.hash = Hash(v.page_content)
          /\ (\A k, l \in 1..Len(loaded) :
                 loaded[k].metadata.source = loaded[l].metadata.source
                     => k = l)
             => vectorstore = {loaded[n] : n \in 1..Len(loaded)}

\* {A, B, C} was indexed, then {A, C', D}: one chunk skipped, one updated,
\* one added, one deleted.
C6_Witness ==
    /\ Completed
    /\ batch = 2
    /\ stats = [added |-> 1, updated |-> 1, skipped |-> 1, deleted |-> 1]
    /\ vectorstore = { Document("reports/a.pdf", 0, "c1"),
                       Document("reports/b.pdf", 0, "c2"),
                       Document("reports/b.pdf", 1, "c1") }

\* C7: no request handler writes a process-wide variable.
C7_NoSharedMutableState == [][trace_url' = trace_url]_vars

ZeroDocs ==
    /\ handler = "chat_endpoint"
    /\ HasFinalOutput(ops)
    /\ docs = << >>

C9_TokenOrder == OutToks = OpToks

\* C10: a successful read is the last read; the shared-status check is
\* made at most once and only after the loop; a link call is made at most
\* once, only after the check and as the check decided; a returned trace
\* request made the check once and exactly one of the two link calls.
C10_TraceLinkResolution ==
    InGetTrace =>
        /\ \A n \in 1..Len(attempts) :
              attempts[n] = "ok" =>
                 /\ n = Len(attempts)
                 /\ pc \notin {"read_run", "sleep"}
        /\ Count(calls, "run_is_shared") <= 1
        /\ LinkCalls <= 1
        /\ pc \in {"read_run", "sleep", "run_is_shared"} =>
              Count(calls, "run_is_shared") = 0 /\ LinkCalls = 0
        /\ pc \in {"read_run_shared_link", "share_run"} =>
              /\ Count(calls, "run_is_shared") = 1
              /\ LinkCalls = 0
              /\ pc = "read_run_shared_link" <=> is_shared
        /\ pc = "returned" =>
              /\ Count(calls, "run_is_shared") = 1
              /\ LinkCalls = 1
              /\ calls[Len(calls) - 1].fn = "run_is_shared"
              /\ calls[Len(calls)].fn =
                    IF is_shared THEN "read_run_shared_link" ELSE "share_run"

C10_Witness ==
    /\ InGetTrace
    /\ pc = "returned"
    /\ attempts = <<"LangSmithError", "ok">>
    /\ is_shared
    /\ calls[Len(calls)].fn = "read_run_shared_link"

RequestHistory ==
    IF "history" \in DOMAIN request THEN request.history ELSE << >>

\* Number of messages the entries before entry n contribute.
RECURSIVE MessagesBefore(_, _)
MessagesBefore(h, n) ==
    IF n <= 1 THEN 0
    ELSE MessagesBefore(h, n - 1)
            + Cardinality(DOMAIN h[n - 1] \cap {"human", "ai"})

Condensed ==
    \/ pc = "REWRITING"
    \/ \E n \in 1..Len(llm_calls) : llm_calls[n] = "CondenseQuestion"

\* C11: the converted history holds, entry by entry in request order, the
\* human message of the entry and then its ai message, each only when the
\* entry has it, so it is at most twice as long as the history; the run
\* takes the REWRITING step exactly when the converted history is not
\* empty, and with an empty one (history absent, empty, or made of entries
\* without human and ai) the retriever gets the request message.
C11_HistoryConversion ==
    handler = "chat_endpoint" =>
        LET h == RequestHistory
            c == converted_chat_history
        IN  /\ Len(c) = MessagesBefore(h, Len(h) + 1)
            /\ Len(c) <= 2 * Len(h)
            /\ \A n \in 1..Len(h) :
                  /\ "human" \in DOMAIN h[n] =>
                        c[MessagesBefore(h, n) + 1]
                            = [type |-> "human", content |-> h[n]["human"]]
                  /\ "ai" \in DOMAIN h[n] =>
                        c[MessagesBefore(h, n + 1)]
                            = [type |-> "ai", content |-> h[n]["ai"]]
            /\ chain = "conversation_chain" <=> c # << >>
            /\ Condensed <=> (c # << >> /\ pc # "RECEIVED")
            /\ c = << >> =>
                  (HasFinalOutput(ops) => retriever_query = request.message)

C11_Witness ==
    /\ handler = "chat_endpoint"
    /\ pc = "DONE"
    /\ "history" \in DOMAIN request
    /\ Len(request.history) = 2
    /\ DOMAIN request.history[1] = {"human", "ai"}
    /\ DOMAIN request.history[2] = {"ai"}
    /\ Len(converted_chat_history) = 3
    /\ llm_calls = <<"CondenseQuestion", "GenerateResponse">>

\* A history of entries without human and ai is served without rewriting.
C11_WitnessBlankEntries ==
    /\ handler = "chat_endpoint"
    /\ pc = "DONE"
    /\ "history" \in DOMAIN request
    /\ Len(request.history) = 2
    /\ converted_chat_history = << >>
    /\ llm_calls = <<"GenerateResponse">>

====
